---- MODULE Spec2Model ----
(***************************************************************************)
(* Model of the eye tracker of netracare_backend/eye_tracking_opencv.py:   *)
(* the EyeTracker object (blink debouncing, per-frame processing, the      *)
(* capture loop, session statistics, reset) and the pure geometry it uses. *)
(*                                                                         *)
(* Units.  The code computes with floats; the model computes the same      *)
(* quantities exactly, as integers in fixed units:                         *)
(*   - an EAR value is an integer number of 1/200 (0.21 is 42); the inputs *)
(*     are even, so that the average of two of them is exact;              *)
(*   - a pixel coordinate is an integer; a centroid is in 1/10 pixel and   *)
(*     an averaged gaze offset in 1/20 pixel;                              *)
(*   - a time is an integer number of seconds;                             *)
(*   - a value rounded to 3 decimals is an integer number of 1/1000, and a *)
(*     value rounded to 2 decimals an integer number of 1/100.             *)
(***************************************************************************)
EXTENDS Integers, Sequences, FiniteSets, TLC

VARIABLES
    frame_counter,      \* self.frame_counter
    total_blinks,       \* self.total_blinks
    blink_history,      \* self.blink_history: sequence of BlinkData
    movement_history,   \* self.movement_history: sequence of EyeMovementData
    cap,                \* self.cap: "none", or a capture that is "open" or "closed"
    pc,                 \* "idle", or "running" / "check" inside run_live_tracking's loop
    duration,           \* run_live_tracking's argument (0 stands for None)
    start_time,         \* run_live_tracking's local start_time
    stops,              \* the stop_camera calls of the last run_live_tracking call
    now,                \* the wall clock read by datetime.now()
    op,                 \* the operation that was called last
    face,               \* whether the last operation processed a frame with face landmarks
    ret,                \* what the last operation returned
    obs,                \* the observations since construction or the last reset:
                        \* TRUE for one below the threshold
    fresh,              \* TRUE until the first reset_tracking
    arg,                \* the argument of the last call of a pure function
    other               \* the fields of a second EyeTracker instance

tracker == <<frame_counter, total_blinks, blink_history, movement_history>>
run     == <<cap, pc, duration, start_time, stops>>
aside   == <<arg, other>>
vars    == <<frame_counter, total_blinks, blink_history, movement_history,
             cap, pc, duration, start_time, stops, now, op, face, ret, obs,
             fresh, arg, other>>

----------------------------------------------------------------------------
(* Bounds of the model. *)

\* the most detect_blink observations between two resets
MaxObs == 3
\* the most observations between two resets when only detect_blink is called
MaxCalls == 6
\* the most records in a history
MaxFrames == 2
\* the wall clock takes the values 0..MaxTime
MaxTime == 1

\* the longest contour calculate_ear is called with, and the largest factor a
\* contour is scaled by
MaxPoints == 7
MaxScale == 3

\* the most records a caller puts into blink_history by hand
MaxRecords == 3

\* with two trackers: the most observations that the two make together
MaxTwoObs == 3

\* the most frames with a face between two resets when only tracking runs
\* feed the tracker
MaxRunFrames == 4

\* the longest sequence of frames fed to process_frame one after the other
MaxFeed == 5

Times == 0..MaxTime

\* EAR values passed to detect_blink directly: 0.10, 0.21, 0.30
EarValues == {20, 42, 60}

\* EarValues and 0.35, which with 0.10 makes a pair of one closed and one
\* open eye whose average is above the threshold
MixedEars == EarValues \cup {70}

\* duration arguments of run_live_tracking: None (0) or 1 second
Durations == {0, 1}

\* the displacements of an iris from its eye's centre, in pixels, that
\* estimate_gaze_direction is called with
OffsetXs == {-10, -6, -5, -4, 0, 2, 4, 5, 6, 10}
OffsetYs == {-10, -4, -3, -2, 0, 1, 3, 4, 10}

\* the landmark positions calculate_ear is called with: the corners of a
\* rectangle, whose mutual distances are whole numbers of pixels
EarPoints == {<<0, 0>>, <<3, 0>>, <<0, 4>>, <<3, 4>>}

\* the EAR values, in units of 1/200, of the records a caller makes up
MockEars == [left_ear : {20, 60}, right_ear : {42, 60}, avg_ear : {60, 61}]

----------------------------------------------------------------------------
(* Program constants. *)

\* 0.21, in units of 1/200
EAR_THRESHOLD == 42
EAR_CONSEC_FRAMES == 2
horizontal_threshold == 5
vertical_threshold == 3

\* the value of an Optional that holds nothing
None == [is_none |-> TRUE]

----------------------------------------------------------------------------
(* Variants of detect_blink, each with one slip in it. *)

\* reports is_blinking also on the observation that registers the blink
detect_blink_flags_blink(fc, tb, left_ear, right_ear) ==
    LET avg_ear == (left_ear + right_ear) \div 2
        fc1     == IF avg_ear < EAR_THRESHOLD THEN fc + 1 ELSE 0
        tb1     == IF avg_ear < EAR_THRESHOLD THEN tb
                   ELSE IF fc >= EAR_CONSEC_FRAMES THEN tb + 1 ELSE tb
    IN  [frame_counter |-> fc1, total_blinks |-> tb1,
         is_blinking |-> (fc1 >= EAR_CONSEC_FRAMES \/ tb1 > tb),
         avg_ear |-> avg_ear]

\* leaves frame_counter as it is on an observation of open eyes
detect_blink_keeps_counter(fc, tb, left_ear, right_ear) ==
    LET avg_ear == (left_ear + right_ear) \div 2
        fc1     == IF avg_ear < EAR_THRESHOLD THEN fc + 1 ELSE fc
        tb1     == IF avg_ear < EAR_THRESHOLD THEN tb
                   ELSE IF fc >= EAR_CONSEC_FRAMES THEN tb + 1 ELSE tb
    IN  [frame_counter |-> fc1, total_blinks |-> tb1,
         is_blinking |-> (fc1 >= EAR_CONSEC_FRAMES), avg_ear |-> avg_ear]

\* takes an average equal to the threshold for a closed eye
detect_blink_inclusive(fc, tb, left_ear, right_ear) ==
    LET avg_ear == (left_ear + right_ear) \div 2
        fc1     == IF avg_ear <= EAR_THRESHOLD THEN fc + 1 ELSE 0
        tb1     == IF avg_ear <= EAR_THRESHOLD THEN tb
                   ELSE IF fc >= EAR_CONSEC_FRAMES THEN tb + 1 ELSE tb
    IN  [frame_counter |-> fc1, total_blinks |-> tb1,
         is_blinking |-> (fc1 >= EAR_CONSEC_FRAMES), avg_ear |-> avg_ear]

\* registers a blink only after more than EAR_CONSEC_FRAMES closed frames
detect_blink_strict(fc, tb, left_ear, right_ear) ==
    LET avg_ear == (left_ear + right_ear) \div 2
        fc1     == IF avg_ear < EAR_THRESHOLD THEN fc + 1 ELSE 0
        tb1     == IF avg_ear < EAR_THRESHOLD THEN tb
                   ELSE IF fc > EAR_CONSEC_FRAMES THEN tb + 1 ELSE tb
    IN  [frame_counter |-> fc1, total_blinks |-> tb1,
         is_blinking |-> (fc1 >= EAR_CONSEC_FRAMES), avg_ear |-> avg_ear]

\* adds the number of closed frames instead of 1
detect_blink_adds_frames(fc, tb, left_ear, right_ear) ==
    LET avg_ear == (left_ear + right_ear) \div 2
        fc1     == IF avg_ear < EAR_THRESHOLD THEN fc + 1 ELSE 0
        tb1     == IF avg_ear < EAR_THRESHOLD THEN tb
                   ELSE IF fc >= EAR_CONSEC_FRAMES THEN tb + fc ELSE tb
    IN  [frame_counter |-> fc1, total_blinks |-> tb1,
         is_blinking |-> (fc1 >= EAR_CONSEC_FRAMES), avg_ear |-> avg_ear]

\* computes is_blinking before it updates frame_counter
detect_blink_stale_flag(fc, tb, left_ear, right_ear) ==
    LET avg_ear == (left_ear + right_ear) \div 2
        fc1     == IF avg_ear < EAR_THRESHOLD THEN fc + 1 ELSE 0
        tb1     == IF avg_ear < EAR_THRESHOLD THEN tb
                   ELSE IF fc >= EAR_CONSEC_FRAMES THEN tb + 1 ELSE tb
    IN  [frame_counter |-> fc1, total_blinks |-> tb1,
         is_blinking |-> (fc >= EAR_CONSEC_FRAMES), avg_ear |-> avg_ear]

\* registers the blink on the frame that confirms the closed period
detect_blink_counts_on_close(fc, tb, left_ear, right_ear) ==
    LET avg_ear == (left_ear + right_ear) \div 2
        fc1     == IF avg_ear < EAR_THRESHOLD THEN fc + 1 ELSE 0
        tb1     == IF avg_ear < EAR_THRESHOLD /\ fc1 = EAR_CONSEC_FRAMES
                   THEN tb + 1 ELSE tb
    IN  [frame_counter |-> fc1, total_blinks |-> tb1,
         is_blinking |-> (fc1 >= EAR_CONSEC_FRAMES), avg_ear |-> avg_ear]

(* EyeTracker.detect_blink: the new counters and the returned pair. *)
detect_blink(fc, tb, left_ear, right_ear) ==
    LET avg_ear == (left_ear + right_ear) \div 2
        fc1     == IF avg_ear < EAR_THRESHOLD THEN fc + 1 ELSE 0
        tb1     == IF avg_ear < EAR_THRESHOLD THEN tb
                   ELSE IF fc >= EAR_CONSEC_FRAMES THEN tb + 1 ELSE tb
    IN  [frame_counter |-> fc1,
         total_blinks  |-> tb1,
         is_blinking   |-> (fc1 >= EAR_CONSEC_FRAMES),
         avg_ear       |-> avg_ear]

\* whether an observation counts as below the threshold
BelowThreshold(left_ear, right_ear) == left_ear + right_ear < 2 * EAR_THRESHOLD

----------------------------------------------------------------------------
(* Geometry.  A point is <<x, y>>; a contour is a sequence of points, whose *)
(* element i + 1 is the code's element i.                                   *)

Abs(x) == IF x < 0 THEN -x ELSE x

\* the integer square root; exact on the perfect squares the frames produce
ISqrt(n) == CHOOSE r \in 0..n : r * r <= n /\ n < (r + 1) * (r + 1)

RECURSIVE SumSeq(_)
SumSeq(s) == IF s = <<>> THEN 0 ELSE Head(s) + SumSeq(Tail(s))

RECURSIVE MinSeq(_)
MinSeq(s) == IF Len(s) = 1 THEN s[1]
             ELSE LET m == MinSeq(Tail(s)) IN IF s[1] < m THEN s[1] ELSE m

RECURSIVE MaxSeq(_)
MaxSeq(s) == IF Len(s) = 1 THEN s[1]
             ELSE LET m == MaxSeq(Tail(s)) IN IF s[1] > m THEN s[1] ELSE m

\* EyeAspectRatioCalculator.calculate_distance: np.linalg.norm(point1 - point2)
calculate_distance(point1, point2) ==
    LET dx == point1[1] - point2[1]
        dy == point1[2] - point2[2]
    IN  IF dx = 0 THEN Abs(dy)
        ELSE IF dy = 0 THEN Abs(dx)
        ELSE ISqrt(dx * dx + dy * dy)

\* what calculate_ear raises on a contour that has not 6 points
ValueError == [raised |-> "ValueError"]

\* a variant of calculate_ear that rejects only contours of fewer than 6 points
calculate_ear_short_only(eye_landmarks) ==
    IF Len(eye_landmarks) < 6 THEN ValueError
    ELSE LET vertical_1 == calculate_distance(eye_landmarks[2], eye_landmarks[6])
             vertical_2 == calculate_distance(eye_landmarks[3], eye_landmarks[5])
             horizontal == calculate_distance(eye_landmarks[1], eye_landmarks[4])
         IN  IF horizontal = 0 THEN [value |-> 0]
             ELSE [value |-> (200 * (vertical_1 + vertical_2)) \div (2 * horizontal)]

\* a variant of calculate_ear without the test of horizontal: the division fails
calculate_ear_unguarded(eye_landmarks) ==
    IF Len(eye_landmarks) # 6 THEN ValueError
    ELSE LET vertical_1 == calculate_distance(eye_landmarks[2], eye_landmarks[6])
             vertical_2 == calculate_distance(eye_landmarks[3], eye_landmarks[5])
             horizontal == calculate_distance(eye_landmarks[1], eye_landmarks[4])
         IN  IF horizontal = 0 THEN [raised |-> "ZeroDivisionError"]
             ELSE [value |-> (200 * (vertical_1 + vertical_2)) \div (2 * horizontal)]

\* a variant of calculate_ear that adds a constant to the denominator
calculate_ear_padded(eye_landmarks) ==
    IF Len(eye_landmarks) # 6 THEN ValueError
    ELSE LET vertical_1 == calculate_distance(eye_landmarks[2], eye_landmarks[6])
             vertical_2 == calculate_distance(eye_landmarks[3], eye_landmarks[5])
             horizontal == calculate_distance(eye_landmarks[1], eye_landmarks[4])
         IN  IF horizontal = 0 THEN [value |-> 0]
             ELSE [value |-> (200 * (vertical_1 + vertical_2)) \div (2 * horizontal + 1)]

\* EyeAspectRatioCalculator.calculate_ear: [value |-> the EAR, in units of
\* 1/200], or the exception raised
calculate_ear(eye_landmarks) ==
    IF Len(eye_landmarks) # 6 THEN ValueError
    ELSE LET vertical_1 == calculate_distance(eye_landmarks[2], eye_landmarks[6])
             vertical_2 == calculate_distance(eye_landmarks[3], eye_landmarks[5])
             horizontal == calculate_distance(eye_landmarks[1], eye_landmarks[4])
         IN  IF horizontal = 0 THEN [value |-> 0]
             ELSE [value |-> (200 * (vertical_1 + vertical_2)) \div (2 * horizontal)]

\* np.mean(points, axis=0), in units of 1/10 pixel (the sets have 5 or 2 points)
MeanPoint(points) ==
    LET n == Len(points)
    IN  << (10 * SumSeq([i \in 1..n |-> points[i][1]])) \div n,
           (10 * SumSeq([i \in 1..n |-> points[i][2]])) \div n >>

\* a variant of estimate_gaze_direction whose vertical tests include the threshold
estimate_gaze_direction_vertical_inclusive(left_iris, right_iris, left_eye_corners, right_eye_corners) ==
    LET left_iris_center  == MeanPoint(left_iris)
        right_iris_center == MeanPoint(right_iris)
        left_eye_center   == MeanPoint(left_eye_corners)
        right_eye_center  == MeanPoint(right_eye_corners)
        left_offset_x  == left_iris_center[1] - left_eye_center[1]
        left_offset_y  == left_iris_center[2] - left_eye_center[2]
        right_offset_x == right_iris_center[1] - right_eye_center[1]
        right_offset_y == right_iris_center[2] - right_eye_center[2]
        avg_offset_x == left_offset_x + right_offset_x
        avg_offset_y == left_offset_y + right_offset_y
        ht == 20 * horizontal_threshold
        vt == 20 * vertical_threshold
    IN  IF Abs(avg_offset_x) < ht /\ Abs(avg_offset_y) < vt THEN "center"
        ELSE IF avg_offset_x < -ht THEN "left"
        ELSE IF avg_offset_x > ht THEN "right"
        ELSE IF avg_offset_y <= -vt THEN "up"
        ELSE IF avg_offset_y >= vt THEN "down"
        ELSE "center"

\* a variant of estimate_gaze_direction that tests the vertical offset first
estimate_gaze_direction_vertical_first(left_iris, right_iris, left_eye_corners, right_eye_corners) ==
    LET left_iris_center  == MeanPoint(left_iris)
        right_iris_center == MeanPoint(right_iris)
        left_eye_center   == MeanPoint(left_eye_corners)
        right_eye_center  == MeanPoint(right_eye_corners)
        left_offset_x  == left_iris_center[1] - left_eye_center[1]
        left_offset_y  == left_iris_center[2] - left_eye_center[2]
        right_offset_x == right_iris_center[1] - right_eye_center[1]
        right_offset_y == right_iris_center[2] - right_eye_center[2]
        avg_offset_x == left_offset_x + right_offset_x
        avg_offset_y == left_offset_y + right_offset_y
        ht == 20 * horizontal_threshold
        vt == 20 * vertical_threshold
    IN  IF Abs(avg_offset_x) < ht /\ Abs(avg_offset_y) < vt THEN "center"
        ELSE IF avg_offset_y < -vt THEN "up"
        ELSE IF avg_offset_y > vt THEN "down"
        ELSE IF avg_offset_x < -ht THEN "left"
        ELSE IF avg_offset_x > ht THEN "right"
        ELSE "center"

\* a variant of estimate_gaze_direction with a right test that includes the threshold
estimate_gaze_direction_right_at_threshold(left_iris, right_iris, left_eye_corners, right_eye_corners) ==
    LET left_iris_center  == MeanPoint(left_iris)
        right_iris_center == MeanPoint(right_iris)
        left_eye_center   == MeanPoint(left_eye_corners)
        right_eye_center  == MeanPoint(right_eye_corners)
        left_offset_x  == left_iris_center[1] - left_eye_center[1]
        left_offset_y  == left_iris_center[2] - left_eye_center[2]
        right_offset_x == right_iris_center[1] - right_eye_center[1]
        right_offset_y == right_iris_center[2] - right_eye_center[2]
        avg_offset_x == left_offset_x + right_offset_x
        avg_offset_y == left_offset_y + right_offset_y
        ht == 20 * horizontal_threshold
        vt == 20 * vertical_threshold
    IN  IF Abs(avg_offset_x) < ht /\ Abs(avg_offset_y) < vt THEN "center"
        ELSE IF avg_offset_x < -ht THEN "left"
        ELSE IF avg_offset_x >= ht THEN "right"
        ELSE IF avg_offset_y < -vt THEN "up"
        ELSE IF avg_offset_y > vt THEN "down"
        ELSE "center"

\* EyeTracker.estimate_gaze_direction; the averaged offsets are in 1/20 pixel
estimate_gaze_direction(left_iris, right_iris, left_eye_corners, right_eye_corners) ==
    LET left_iris_center  == MeanPoint(left_iris)
        right_iris_center == MeanPoint(right_iris)
        left_eye_center   == MeanPoint(left_eye_corners)
        right_eye_center  == MeanPoint(right_eye_corners)
        left_offset_x  == left_iris_center[1] - left_eye_center[1]
        left_offset_y  == left_iris_center[2] - left_eye_center[2]
        right_offset_x == right_iris_center[1] - right_eye_center[1]
        right_offset_y == right_iris_center[2] - right_eye_center[2]
        avg_offset_x == left_offset_x + right_offset_x
        avg_offset_y == left_offset_y + right_offset_y
        ht == 20 * horizontal_threshold
        vt == 20 * vertical_threshold
    IN  IF Abs(avg_offset_x) < ht /\ Abs(avg_offset_y) < vt THEN "center"
        ELSE IF avg_offset_x < -ht THEN "left"
        ELSE IF avg_offset_x > ht THEN "right"
        ELSE IF avg_offset_y < -vt THEN "up"
        ELSE IF avg_offset_y > vt THEN "down"
        ELSE "center"

----------------------------------------------------------------------------
(* Frames: what face_mesh.process and extract_eye_landmarks give for a     *)
(* camera frame, in pixel coordinates.                                     *)

\* a 6-point eye contour at offset x0, 100 pixels wide and v pixels high
EyeContour(x0, v) ==
    << <<x0, 5>>, <<x0 + 30, 0>>, <<x0 + 60, 0>>,
       <<x0 + 100, 5>>, <<x0 + 60, v>>, <<x0 + 30, v>> >>

\* the 5 iris landmarks around (cx, cy)
Iris(cx, cy) ==
    << <<cx - 1, cy>>, <<cx + 1, cy>>, <<cx, cy + 1>>, <<cx, cy - 1>>, <<cx, cy>> >>

\* the 2 eye corners around (cx, 50)
Corners(cx) == << <<cx - 10, 50>>, <<cx + 10, 50>> >>

\* a frame with a face: eye heights vl, vr and an iris displacement (dx, dy)
FaceFrame(vl, vr, dx, dy) ==
    [face          |-> TRUE,
     left_eye      |-> EyeContour(50, vl),
     right_eye     |-> EyeContour(150, vr),
     left_iris     |-> Iris(100 + dx, 50 + dy),
     right_iris    |-> Iris(200 + dx, 50 + dy),
     left_corners  |-> Corners(100),
     right_corners |-> Corners(200)]

\* a frame in which face_mesh.process finds no face
NoFaceFrame == [face |-> FALSE]

\* closed eyes looking ahead, and open eyes looking left
FaceFrames == { FaceFrame(10, 10, 0, 0), FaceFrame(30, 30, -10, 0) }

Frames == FaceFrames \cup {NoFaceFrame}

----------------------------------------------------------------------------
\* a variant of process_frame that takes a frame without a face for open eyes
process_frame_noface_opens(fc, tb, frame, timestamp) ==
    IF ~frame.face
    THEN [frame_counter |-> 0, total_blinks |-> tb,
          blink_data |-> None, movement_data |-> None]
    ELSE LET left_ear  == calculate_ear(frame.left_eye).value
             right_ear == calculate_ear(frame.right_eye).value
             d == detect_blink(fc, tb, left_ear, right_ear)
             gaze_direction == estimate_gaze_direction(
                                   frame.left_iris, frame.right_iris,
                                   frame.left_corners, frame.right_corners)
             left_iris_center  == MeanPoint(frame.left_iris)
             right_iris_center == MeanPoint(frame.right_iris)
         IN  [frame_counter |-> d.frame_counter,
              total_blinks  |-> d.total_blinks,
              blink_data    |-> [timestamp   |-> timestamp,
                                 left_ear    |-> left_ear,
                                 right_ear   |-> right_ear,
                                 avg_ear     |-> d.avg_ear,
                                 is_blinking |-> d.is_blinking,
                                 blink_count |-> d.total_blinks],
              movement_data |-> [timestamp      |-> timestamp,
                                 left_gaze_x    |-> left_iris_center[1],
                                 left_gaze_y    |-> left_iris_center[2],
                                 right_gaze_x   |-> right_iris_center[1],
                                 right_gaze_y   |-> right_iris_center[2],
                                 gaze_direction |-> gaze_direction]]

\* a variant of process_frame that gives no movement record for a closed eye
process_frame_gaze_when_open(fc, tb, frame, timestamp) ==
    IF ~frame.face
    THEN [frame_counter |-> fc, total_blinks |-> tb,
          blink_data |-> None, movement_data |-> None]
    ELSE LET left_ear  == calculate_ear(frame.left_eye).value
             right_ear == calculate_ear(frame.right_eye).value
             d == detect_blink(fc, tb, left_ear, right_ear)
             gaze_direction == estimate_gaze_direction(
                                   frame.left_iris, frame.right_iris,
                                   frame.left_corners, frame.right_corners)
             left_iris_center  == MeanPoint(frame.left_iris)
             right_iris_center == MeanPoint(frame.right_iris)
         IN  [frame_counter |-> d.frame_counter,
              total_blinks  |-> d.total_blinks,
              blink_data    |-> [timestamp   |-> timestamp,
                                 left_ear    |-> left_ear,
                                 right_ear   |-> right_ear,
                                 avg_ear     |-> d.avg_ear,
                                 is_blinking |-> d.is_blinking,
                                 blink_count |-> d.total_blinks],
              movement_data |-> IF d.is_blinking THEN None ELSE
                                [timestamp      |-> timestamp,
                                 left_gaze_x    |-> left_iris_center[1],
                                 left_gaze_y    |-> left_iris_center[2],
                                 right_gaze_x   |-> right_iris_center[1],
                                 right_gaze_y   |-> right_iris_center[2],
                                 gaze_direction |-> gaze_direction]]

\* a variant of process_frame that stores the count it found on entry
process_frame_count_before(fc, tb, frame, timestamp) ==
    IF ~frame.face
    THEN [frame_counter |-> fc, total_blinks |-> tb,
          blink_data |-> None, movement_data |-> None]
    ELSE LET left_ear  == calculate_ear(frame.left_eye).value
             right_ear == calculate_ear(frame.right_eye).value
             d == detect_blink(fc, tb, left_ear, right_ear)
             gaze_direction == estimate_gaze_direction(
                                   frame.left_iris, frame.right_iris,
                                   frame.left_corners, frame.right_corners)
             left_iris_center  == MeanPoint(frame.left_iris)
             right_iris_center == MeanPoint(frame.right_iris)
         IN  [frame_counter |-> d.frame_counter,
              total_blinks  |-> d.total_blinks,
              blink_data    |-> [timestamp   |-> timestamp,
                                 left_ear    |-> left_ear,
                                 right_ear   |-> right_ear,
                                 avg_ear     |-> d.avg_ear,
                                 is_blinking |-> d.is_blinking,
                                 blink_count |-> tb],
              movement_data |-> [timestamp      |-> timestamp,
                                 left_gaze_x    |-> left_iris_center[1],
                                 left_gaze_y    |-> left_iris_center[2],
                                 right_gaze_x   |-> right_iris_center[1],
                                 right_gaze_y   |-> right_iris_center[2],
                                 gaze_direction |-> gaze_direction]]

\* a variant of process_frame that takes a frame without a face for an
\* observation of open eyes
process_frame_noface_observed(fc, tb, frame, timestamp) ==
    IF ~frame.face
    THEN [frame_counter |-> 0,
          total_blinks  |-> IF fc >= EAR_CONSEC_FRAMES THEN tb + 1 ELSE tb,
          blink_data |-> None, movement_data |-> None]
    ELSE LET left_ear  == calculate_ear(frame.left_eye).value
             right_ear == calculate_ear(frame.right_eye).value
             d == detect_blink(fc, tb, left_ear, right_ear)
             gaze_direction == estimate_gaze_direction(
                                   frame.left_iris, frame.right_iris,
                                   frame.left_corners, frame.right_corners)
             left_iris_center  == MeanPoint(frame.left_iris)
             right_iris_center == MeanPoint(frame.right_iris)
         IN  [frame_counter |-> d.frame_counter,
              total_blinks  |-> d.total_blinks,
              blink_data    |-> [timestamp   |-> timestamp,
                                 left_ear    |-> left_ear,
                                 right_ear   |-> right_ear,
                                 avg_ear     |-> d.avg_ear,
                                 is_blinking |-> d.is_blinking,
                                 blink_count |-> d.total_blinks],
              movement_data |-> [timestamp      |-> timestamp,
                                 left_gaze_x    |-> left_iris_center[1],
                                 left_gaze_y    |-> left_iris_center[2],
                                 right_gaze_x   |-> right_iris_center[1],
                                 right_gaze_y   |-> right_iris_center[2],
                                 gaze_direction |-> gaze_direction]]

(* EyeTracker.process_frame at wall-clock time timestamp: the new counters *)
(* and the two returned records (the annotated image is left out).         *)
process_frame(fc, tb, frame, timestamp) ==
    IF ~frame.face
    THEN [frame_counter |-> fc, total_blinks |-> tb,
          blink_data |-> None, movement_data |-> None]
    ELSE LET left_ear  == calculate_ear(frame.left_eye).value
             right_ear == calculate_ear(frame.right_eye).value
             d == detect_blink(fc, tb, left_ear, right_ear)
             gaze_direction == estimate_gaze_direction(
                                   frame.left_iris, frame.right_iris,
                                   frame.left_corners, frame.right_corners)
             left_iris_center  == MeanPoint(frame.left_iris)
             right_iris_center == MeanPoint(frame.right_iris)
         IN  [frame_counter |-> d.frame_counter,
              total_blinks  |-> d.total_blinks,
              blink_data    |-> [timestamp   |-> timestamp,
                                 left_ear    |-> left_ear,
                                 right_ear   |-> right_ear,
                                 avg_ear     |-> d.avg_ear,
                                 is_blinking |-> d.is_blinking,
                                 blink_count |-> d.total_blinks],
              movement_data |-> [timestamp      |-> timestamp,
                                 left_gaze_x    |-> left_iris_center[1],
                                 left_gaze_y    |-> left_iris_center[2],
                                 right_gaze_x   |-> right_iris_center[1],
                                 right_gaze_y   |-> right_iris_center[2],
                                 gaze_direction |-> gaze_direction]]

\* the observation that a frame with a face passes to detect_blink
FrameBelowThreshold(frame) ==
    BelowThreshold(calculate_ear(frame.left_eye).value, calculate_ear(frame.right_eye).value)

----------------------------------------------------------------------------
(* Statistics. *)

\* a / b rounded to the nearest integer, halves to the even one (b > 0)
RoundDiv(a, b) ==
    LET q == a \div b
        r == a % b
    IN  IF 2 * r < b THEN q
        ELSE IF 2 * r > b THEN q + 1
        ELSE IF q % 2 = 0 THEN q ELSE q + 1

\* round(np.std(values), 3) of EAR values: the population standard deviation
\* is sqrt(d) / n in units of 1/200 with d = n * sum(x^2) - sum(x)^2, and the
\* result k, in units of 1/1000, is the integer nearest to 5 * sqrt(d) / n
RoundStd(values) ==
    LET n == Len(values)
        s == SumSeq(values)
        d == n * SumSeq([i \in 1..n |-> values[i] * values[i]]) - s * s
        k == CHOOSE j \in 0..(5 * (MaxSeq(values) - MinSeq(values)) + 1) :
                 100 * d <= (2 * j + 1) * (2 * j + 1) * n * n
    IN  IF 100 * d = (2 * k + 1) * (2 * k + 1) * n * n /\ k % 2 = 1
        THEN k + 1 ELSE k

\* a variant of EarStatistics that cuts the mean off after 3 decimals
EarStatistics_truncated_mean(values) ==
    [mean |-> (5 * SumSeq(values)) \div Len(values),
     std  |-> RoundStd(values),
     min  |-> 5 * MinSeq(values),
     max  |-> 5 * MaxSeq(values)]

\* the mean, std, min and max of a list of EAR values, rounded to 3 decimals
EarStatistics(values) ==
    [mean |-> RoundDiv(5 * SumSeq(values), Len(values)),
     std  |-> RoundStd(values),
     min  |-> 5 * MinSeq(values),
     max  |-> 5 * MaxSeq(values)]

\* the loop over gaze_directions: each direction's entry of gaze_counts
\* becomes gaze_counts.get(direction, 0) + 1
RECURSIVE GazeCountsFrom(_, _)
GazeCountsFrom(gaze_directions, gaze_counts) ==
    IF gaze_directions = <<>> THEN gaze_counts
    ELSE LET direction == Head(gaze_directions)
             got == IF direction \in DOMAIN gaze_counts
                    THEN gaze_counts[direction] ELSE 0
         IN  GazeCountsFrom(Tail(gaze_directions),
                            (direction :> got + 1) @@ gaze_counts)

\* a variant of GazeCounts whose tally starts with every label at 0
GazeCounts_all_labels(mh) ==
    GazeCountsFrom([i \in 1..Len(mh) |-> mh[i].gaze_direction],
                   [direction \in {"center", "left", "right", "up", "down"} |-> 0])

\* the tally of the gaze directions of a movement history: a function from
\* the directions that occur to their numbers of occurrences
GazeCounts(mh) ==
    GazeCountsFrom([i \in 1..Len(mh) |-> mh[i].gaze_direction],
                   [direction \in {} |-> 0])

\* a variant of StatisticsOf that takes the distance of the two timestamps
StatisticsOf_abs_duration(tb, bh, mh) ==
    LET diff == bh[Len(bh)].timestamp - bh[1].timestamp
        stat_duration == IF diff < 0 THEN -diff ELSE diff
        blink_rate == IF stat_duration > 0
                      THEN RoundDiv(tb * 60 * 100, stat_duration) ELSE 0
        left_ears  == [i \in 1..Len(bh) |-> bh[i].left_ear]
        right_ears == [i \in 1..Len(bh) |-> bh[i].right_ear]
        avg_ears   == [i \in 1..Len(bh) |-> bh[i].avg_ear]
    IN  [duration_seconds      |-> 100 * stat_duration,
         total_blinks          |-> tb,
         blink_rate_per_minute |-> blink_rate,
         ear_statistics        |-> [left_eye  |-> EarStatistics(left_ears),
                                    right_eye |-> EarStatistics(right_ears),
                                    average   |-> EarStatistics(avg_ears)],
         gaze_distribution     |-> GazeCounts(mh),
         data_points           |-> Len(bh)]

\* the statistics of a non-empty history bh, with total_blinks tb
StatisticsOf(tb, bh, mh) ==
    LET stat_duration == bh[Len(bh)].timestamp - bh[1].timestamp
        blink_rate == IF stat_duration > 0
                      THEN RoundDiv(tb * 60 * 100, stat_duration) ELSE 0
        left_ears  == [i \in 1..Len(bh) |-> bh[i].left_ear]
        right_ears == [i \in 1..Len(bh) |-> bh[i].right_ear]
        avg_ears   == [i \in 1..Len(bh) |-> bh[i].avg_ear]
    IN  [duration_seconds      |-> 100 * stat_duration,
         total_blinks          |-> tb,
         blink_rate_per_minute |-> blink_rate,
         ear_statistics        |-> [left_eye  |-> EarStatistics(left_ears),
                                    right_eye |-> EarStatistics(right_ears),
                                    average   |-> EarStatistics(avg_ears)],
         gaze_distribution     |-> GazeCounts(mh),
         data_points           |-> Len(bh)]

\* a variant of get_statistics that answers an empty history with zeros
get_statistics_zeros(tb, bh, mh) ==
    IF bh = <<>>
    THEN [duration_seconds |-> 0, total_blinks |-> tb,
          blink_rate_per_minute |-> 0, data_points |-> 0]
    ELSE StatisticsOf(tb, bh, mh)

\* a variant of get_statistics that reports the blink_count of the last record
get_statistics_last_count(tb, bh, mh) ==
    IF bh = <<>> THEN [error |-> "No tracking data available"]
    ELSE StatisticsOf(bh[Len(bh)].blink_count, bh, mh)

\* a variant of get_statistics that counts a closed period still going on
get_statistics_counts_pending(tb, bh, mh) ==
    IF bh = <<>> THEN [error |-> "No tracking data available"]
    ELSE StatisticsOf(IF bh[Len(bh)].is_blinking THEN tb + 1 ELSE tb, bh, mh)

\* EyeTracker.get_statistics: the returned dictionary
get_statistics(tb, bh, mh) ==
    IF bh = <<>> THEN [error |-> "No tracking data available"]
    ELSE StatisticsOf(tb, bh, mh)

----------------------------------------------------------------------------
\* the fields that EyeTracker.__init__ gives a new instance
InitOther ==
    [frame_counter |-> 0, total_blinks |-> 0,
     blink_history |-> <<>>, movement_history |-> <<>>]

\* a tracker as __init__ leaves it
Constructed ==
    /\ frame_counter = 0
    /\ total_blinks = 0
    /\ blink_history = <<>>
    /\ movement_history = <<>>
    /\ cap = "none"
    /\ pc = "idle"
    /\ duration = 0
    /\ start_time = 0
    /\ stops = 0
    /\ now \in Times
    /\ op = "init"
    /\ face = FALSE
    /\ ret = None
    /\ obs = <<>>
    /\ fresh = TRUE
    /\ other = InitOther

Init == Constructed /\ arg = None

(* A direct call tracker.detect_blink(left_ear, right_ear), while fewer   *)
(* than n observations were made since the last reset.                    *)
DetectBlinkUpTo(n) ==
    /\ UNCHANGED aside
    /\ pc = "idle"
    /\ Len(obs) < n
    /\ \E left_ear \in EarValues, right_ear \in EarValues :
         LET d == detect_blink(frame_counter, total_blinks, left_ear, right_ear)
         IN  /\ frame_counter' = d.frame_counter
             /\ total_blinks' = d.total_blinks
             /\ ret' = [is_blinking |-> d.is_blinking, avg_ear |-> d.avg_ear]
             /\ obs' = Append(obs, BelowThreshold(left_ear, right_ear))
    /\ op' = "detect_blink"
    /\ face' = FALSE
    /\ UNCHANGED <<blink_history, movement_history, run, now, fresh>>

DetectBlink == DetectBlinkUpTo(MaxObs)

\* a variant of reset_tracking that forgets to reset frame_counter
ResetTrackingKeepsRun ==
    /\ UNCHANGED aside
    /\ pc = "idle"
    /\ total_blinks' = 0
    /\ blink_history' = <<>>
    /\ movement_history' = <<>>
    /\ op' = "reset_tracking"
    /\ ret' = None
    /\ obs' = <<>>
    /\ fresh' = FALSE
    /\ face' = FALSE
    /\ UNCHANGED <<frame_counter, run, now>>

(* tracker.reset_tracking() *)
ResetTracking ==
    /\ UNCHANGED aside
    /\ pc = "idle"
    /\ frame_counter' = 0
    /\ total_blinks' = 0
    /\ blink_history' = <<>>
    /\ movement_history' = <<>>
    /\ op' = "reset_tracking"
    /\ ret' = None
    /\ obs' = <<>>
    /\ fresh' = FALSE
    /\ face' = FALSE
    /\ UNCHANGED <<run, now>>

(* A direct call tracker.process_frame(frame), while fewer than n           *)
(* observations were made: it returns the records and leaves the histories *)
(* to its caller.                                                          *)
ProcessFrameUpTo(n) ==
    /\ UNCHANGED aside
    /\ pc = "idle"
    /\ \E frame \in Frames :
         LET p == process_frame(frame_counter, total_blinks, frame, now)
         IN  /\ frame.face => Len(obs) < n
             /\ frame_counter' = p.frame_counter
             /\ total_blinks' = p.total_blinks
             /\ ret' = [blink_data |-> p.blink_data, movement_data |-> p.movement_data]
             /\ face' = frame.face
             /\ obs' = IF frame.face THEN Append(obs, FrameBelowThreshold(frame))
                       ELSE obs
    /\ op' = "process_frame"
    /\ UNCHANGED <<blink_history, movement_history, run, now, fresh>>

ProcessFrame == ProcessFrameUpTo(MaxObs)

\* a variant of get_statistics that closes a pending closed period
GetStatisticsFinalizing ==
    /\ UNCHANGED aside
    /\ pc = "idle"
    /\ total_blinks' = IF frame_counter >= EAR_CONSEC_FRAMES
                       THEN total_blinks + 1 ELSE total_blinks
    /\ frame_counter' = IF frame_counter >= EAR_CONSEC_FRAMES THEN 0 ELSE frame_counter
    /\ ret' = get_statistics(total_blinks', blink_history, movement_history)
    /\ op' = "get_statistics"
    /\ face' = FALSE
    /\ UNCHANGED <<blink_history, movement_history, run, now, obs, fresh>>

(* tracker.get_statistics() *)
GetStatistics ==
    /\ UNCHANGED aside
    /\ pc = "idle"
    /\ ret' = get_statistics(total_blinks, blink_history, movement_history)
    /\ op' = "get_statistics"
    /\ face' = FALSE
    /\ UNCHANGED <<tracker, run, now, obs, fresh>>

(* tracker.run_live_tracking(duration) up to the loop: start_camera opens  *)
(* the camera or fails, and then the call returns at once.                 *)
RunStart ==
    /\ UNCHANGED aside
    /\ pc = "idle"
    /\ \E d \in Durations, opened \in BOOLEAN :
         IF opened
         THEN /\ cap' = "open"
              /\ pc' = "running"
              /\ duration' = d
              /\ start_time' = now
              /\ ret' = [event |-> "started"]
         ELSE /\ cap' = "closed"
              /\ ret' = [event |-> "camera_failed"]
              /\ UNCHANGED <<pc, duration, start_time>>
    /\ stops' = 0
    /\ op' = "run_live_tracking"
    /\ face' = FALSE
    /\ UNCHANGED <<tracker, now, obs, fresh>>

\* a variant of leaving the loop in which the break releases the camera
\* itself before the finally clause does it again
StopRunTwice ==
    /\ cap' = "closed"
    /\ pc' = "idle"
    /\ duration' = 0
    /\ start_time' = 0
    /\ stops' = stops + 2

\* what leaving the loop does: the finally clause calls stop_camera, which
\* releases the camera and closes the face-mesh detector
StopRun ==
    /\ cap' = "closed"
    /\ pc' = "idle"
    /\ duration' = 0
    /\ start_time' = 0
    /\ stops' = stops + 1

(* The first half of a loop iteration: read a frame; leave the loop if    *)
(* that fails; otherwise process the frame and store the records, while    *)
(* fewer than n observations were made and fewer than m records stored.    *)
RunFrameUpTo(n, m) ==
    /\ UNCHANGED aside
    /\ pc = "running"
    /\ op' = "run_live_tracking"
    /\ UNCHANGED <<now, fresh>>
    /\ \E read_ok \in BOOLEAN, frame \in Frames, raised \in {"no", "before", "after"} :
         LET p == process_frame(frame_counter, total_blinks, frame, now)
         IN  IF ~read_ok
             THEN /\ frame = NoFaceFrame /\ raised = "no"
                  /\ StopRun
                  /\ ret' = [event |-> "read_failed"]
                  /\ face' = FALSE
                  /\ UNCHANGED <<tracker, obs>>
             ELSE IF raised = "before"
             THEN \* process_frame raises before it reaches detect_blink
                  /\ frame = NoFaceFrame
                  /\ StopRun
                  /\ ret' = [event |-> "exception"]
                  /\ face' = FALSE
                  /\ UNCHANGED <<tracker, obs>>
             ELSE IF raised = "after"
             THEN \* process_frame raises after detect_blink, or the loop is
                  \* interrupted before the appends
                  /\ frame.face /\ Len(obs) < n
                  /\ frame_counter' = p.frame_counter
                  /\ total_blinks' = p.total_blinks
                  /\ obs' = Append(obs, FrameBelowThreshold(frame))
                  /\ StopRun
                  /\ ret' = [event |-> "exception"]
                  /\ face' = TRUE
                  /\ UNCHANGED <<blink_history, movement_history>>
             ELSE /\ frame.face => Len(obs) < n /\ Len(blink_history) < m
                  /\ frame_counter' = p.frame_counter
                  /\ total_blinks' = p.total_blinks
                  /\ blink_history' = IF p.blink_data # None
                                      THEN Append(blink_history, p.blink_data)
                                      ELSE blink_history
                  /\ movement_history' = IF p.movement_data # None
                                         THEN Append(movement_history, p.movement_data)
                                         ELSE movement_history
                  /\ ret' = [event |-> "frame", blink_data |-> p.blink_data,
                             movement_data |-> p.movement_data]
                  /\ face' = frame.face
                  /\ obs' = IF frame.face THEN Append(obs, FrameBelowThreshold(frame))
                            ELSE obs
                  /\ pc' = "check"
                  /\ UNCHANGED <<cap, duration, start_time, stops>>

RunFrame == RunFrameUpTo(MaxObs, MaxFrames)

\* a variant of the second half that leaves the loop only when more than the
\* duration has elapsed
RunCheckLate ==
    /\ UNCHANGED aside
    /\ pc = "check"
    /\ op' = "run_live_tracking"
    /\ face' = FALSE
    /\ UNCHANGED <<tracker, now, obs, fresh>>
    /\ \E quit \in BOOLEAN :
         IF duration # 0 /\ now - start_time > duration
         THEN /\ quit = FALSE
              /\ StopRun
              /\ ret' = [event |-> "duration_elapsed"]
         ELSE IF quit
         THEN /\ StopRun
              /\ ret' = [event |-> "quit"]
         ELSE /\ pc' = "running"
              /\ ret' = [event |-> "continue"]
              /\ UNCHANGED <<cap, duration, start_time, stops>>

(* The second half of a loop iteration: leave the loop when the duration  *)
(* has elapsed or the quit key was pressed, and go on otherwise.          *)
RunCheck ==
    /\ UNCHANGED aside
    /\ pc = "check"
    /\ op' = "run_live_tracking"
    /\ face' = FALSE
    /\ UNCHANGED <<tracker, now, obs, fresh>>
    /\ \E quit \in BOOLEAN :
         IF duration # 0 /\ now - start_time >= duration
         THEN /\ quit = FALSE
              /\ StopRun
              /\ ret' = [event |-> "duration_elapsed"]
         ELSE IF quit
         THEN /\ StopRun
              /\ ret' = [event |-> "quit"]
         ELSE /\ pc' = "running"
              /\ ret' = [event |-> "continue"]
              /\ UNCHANGED <<cap, duration, start_time, stops>>

(* The wall clock advances. *)
ClockAdvance ==
    /\ UNCHANGED aside
    /\ now < MaxTime
    /\ now' = now + 1
    /\ UNCHANGED <<tracker, run, op, face, ret, obs, fresh>>

(* The wall clock is set back. *)
ClockSetBack ==
    /\ UNCHANGED aside
    /\ \E t \in Times : t < now /\ now' = t
    /\ UNCHANGED <<tracker, run, op, face, ret, obs, fresh>>

Next ==
    \/ DetectBlink
    \/ ProcessFrame
    \/ GetStatistics
    \/ ResetTracking
    \/ RunStart
    \/ RunFrame
    \/ RunCheck
    \/ ClockAdvance
    \/ ClockSetBack

Spec == Init /\ [][Next]_vars

(* The tracker driven by detect_blink and reset_tracking calls only. *)
DetectBlinkOnly == DetectBlinkUpTo(MaxCalls)

NextBlink ==
    \/ DetectBlinkOnly
    \/ ResetTracking

SpecBlink == Init /\ [][NextBlink]_vars

(* estimate_gaze_direction called on its own: each eye's iris is displaced *)
(* by (dx, dy) from its eye's centre.                                      *)
GazeInputs ==
    {[left_iris         |-> Iris(100 + dxl, 50 + dyl),
      right_iris        |-> Iris(200 + dxr, 50 + dyr),
      left_eye_corners  |-> Corners(100),
      right_eye_corners |-> Corners(200),
      offsets           |-> [left |-> <<dxl, dyl>>, right |-> <<dxr, dyr>>]] :
        dxl \in OffsetXs, dyl \in OffsetYs, dxr \in OffsetXs, dyr \in OffsetYs}

InitGaze == Constructed /\ arg \in GazeInputs

EstimateGaze ==
    /\ arg \in GazeInputs
    /\ ret' = estimate_gaze_direction(arg.left_iris, arg.right_iris,
                                      arg.left_eye_corners, arg.right_eye_corners)
    /\ op' = "estimate_gaze_direction"
    /\ face' = FALSE
    /\ UNCHANGED <<tracker, run, now, obs, fresh, aside>>

SpecGaze == InitGaze /\ [][EstimateGaze]_vars

(* calculate_ear called on its own, on a contour of up to MaxPoints points. *)
Contours == UNION {[1..n -> EarPoints] : n \in 0..MaxPoints}

InitEar == Constructed /\ arg \in Contours

CalculateEar ==
    /\ arg \in Seq(EarPoints)
    /\ ret' = calculate_ear(arg)
    /\ op' = "calculate_ear"
    /\ face' = FALSE
    /\ UNCHANGED <<tracker, run, now, obs, fresh, aside>>

SpecEar == InitEar /\ [][CalculateEar]_vars

(* get_statistics on a history that the caller filled by hand, as         *)
(* tracker.blink_history.append(BlinkData(timestamp=float(i), ...)).       *)
AppendBlinkData ==
    \E ears \in MockEars :
        LET i == Len(blink_history)
            blink_data == [timestamp   |-> i,
                           left_ear    |-> ears.left_ear,
                           right_ear   |-> ears.right_ear,
                           avg_ear     |-> ears.avg_ear,
                           is_blinking |-> FALSE,
                           blink_count |-> i]
        IN  /\ pc = "idle"
            /\ i < MaxRecords
            /\ blink_history' = Append(blink_history, blink_data)
            /\ op' = "append"
            /\ face' = FALSE
            /\ ret' = None
            /\ UNCHANGED <<frame_counter, total_blinks, movement_history,
                           run, now, obs, fresh, aside>>

NextStats ==
    \/ AppendBlinkData
    \/ GetStatistics

SpecStats == Init /\ [][NextStats]_vars

(* Two trackers.  The operations of the second one work on its own fields, *)
(* the record other; they may come at any point of the first one's run.    *)

\* the observations of the first tracker and those that the second one
\* shows
BothObs == Len(obs) + other.frame_counter + other.total_blinks
                    + Len(other.blink_history)

\* what an operation on the second tracker leaves alone
OtherLeaves == <<tracker, run, now, obs, fresh, arg>>

(* other.detect_blink(left_ear, right_ear) *)
OtherDetectBlink ==
    /\ BothObs < MaxTwoObs
    /\ \E left_ear \in EarValues, right_ear \in EarValues :
         LET d == detect_blink(other.frame_counter, other.total_blinks,
                               left_ear, right_ear)
         IN  /\ other' = [other EXCEPT !.frame_counter = d.frame_counter,
                                       !.total_blinks = d.total_blinks]
             /\ ret' = [is_blinking |-> d.is_blinking, avg_ear |-> d.avg_ear]
    /\ op' = "other.detect_blink"
    /\ face' = FALSE
    /\ UNCHANGED OtherLeaves

(* An iteration of other.run_live_tracking on a frame with a face:        *)
(* process_frame and the two appends.                                     *)
OtherRunFrame ==
    /\ BothObs < MaxTwoObs
    /\ \E frame \in FaceFrames :
         LET p == process_frame(other.frame_counter, other.total_blinks, frame, now)
         IN  /\ other' = [frame_counter    |-> p.frame_counter,
                          total_blinks     |-> p.total_blinks,
                          blink_history    |-> Append(other.blink_history, p.blink_data),
                          movement_history |-> Append(other.movement_history,
                                                      p.movement_data)]
             /\ ret' = [event |-> "frame", blink_data |-> p.blink_data,
                        movement_data |-> p.movement_data]
    /\ op' = "other.run_live_tracking"
    /\ face' = FALSE
    /\ UNCHANGED OtherLeaves

(* other.get_statistics() *)
OtherGetStatistics ==
    /\ ret' = get_statistics(other.total_blinks, other.blink_history,
                             other.movement_history)
    /\ op' = "other.get_statistics"
    /\ face' = FALSE
    /\ UNCHANGED <<OtherLeaves, other>>

\* a variant of other.reset_tracking for histories that are class attributes,
\* one list for all instances
OtherResetTrackingShared ==
    /\ other' = InitOther
    /\ blink_history' = <<>>
    /\ movement_history' = <<>>
    /\ op' = "other.reset_tracking"
    /\ ret' = None
    /\ face' = FALSE
    /\ UNCHANGED <<frame_counter, total_blinks, run, now, obs, fresh, arg>>

(* other.reset_tracking() *)
OtherResetTracking ==
    /\ other' = InitOther
    /\ op' = "other.reset_tracking"
    /\ ret' = None
    /\ face' = FALSE
    /\ UNCHANGED OtherLeaves

\* an operation on the first tracker
FirstStep ==
    \/ DetectBlinkUpTo(MaxTwoObs - BothObs + Len(obs))
    \/ ProcessFrameUpTo(MaxTwoObs - BothObs + Len(obs))
    \/ GetStatistics
    \/ ResetTracking
    \/ RunStart
    \/ RunFrameUpTo(MaxTwoObs - BothObs + Len(obs), MaxTwoObs)
    \/ RunCheck

\* an operation on the second tracker
OtherStep ==
    \/ OtherDetectBlink
    \/ OtherRunFrame
    \/ OtherGetStatistics
    \/ OtherResetTracking

NextTwo == FirstStep \/ OtherStep

SpecTwo == Init /\ [][NextTwo]_vars

(* A caller that feeds a sequence of frames, arg.frames, to process_frame  *)
(* one after the other; arg.done of them have been processed.              *)
FrameFeeds ==
    {[frames |-> frames, done |-> 0] :
        frames \in UNION {[1..n -> Frames] : n \in 1..MaxFeed}}

InitFeed == Constructed /\ arg \in FrameFeeds

FeedFrame ==
    /\ pc = "idle"
    /\ arg.done < Len(arg.frames)
    /\ LET frame == arg.frames[arg.done + 1]
           p     == process_frame(frame_counter, total_blinks, frame, now)
       IN  /\ frame_counter' = p.frame_counter
           /\ total_blinks' = p.total_blinks
           /\ ret' = [blink_data |-> p.blink_data, movement_data |-> p.movement_data]
           /\ face' = frame.face
           /\ obs' = IF frame.face THEN Append(obs, FrameBelowThreshold(frame))
                     ELSE obs
    /\ arg' = [arg EXCEPT !.done = arg.done + 1]
    /\ op' = "process_frame"
    /\ UNCHANGED <<blink_history, movement_history, run, now, fresh, other>>

SpecFeed == InitFeed /\ [][FeedFrame]_vars

(* The tracker driven by tracking runs, get_statistics and reset_tracking. *)
NextRun ==
    \/ RunStart
    \/ RunFrameUpTo(MaxRunFrames, MaxRunFrames)
    \/ RunCheck
    \/ GetStatistics
    \/ ResetTracking
    \/ ClockAdvance

SpecRun == Init /\ [][NextRun]_vars

(* Tracking runs alone, with a clock that only advances; the loop keeps   *)
(* iterating and the clock keeps advancing while it can.                  *)
NextLive ==
    \/ RunStart
    \/ RunFrame
    \/ RunCheck
    \/ ClockAdvance

SpecLive ==
    /\ Init
    /\ [][NextLive]_vars
    /\ WF_vars(RunFrame)
    /\ WF_vars(RunCheck)
    /\ WF_vars(ClockAdvance)

----------------------------------------------------------------------------
(* Properties of a sequence of observations, stated on the sequence alone. *)

Last(s) == s[Len(s)]

\* the length of the run of below-threshold observations that ends s
RECURSIVE TrailingBelow(_)
TrailingBelow(s) ==
    IF s = <<>> \/ ~Last(s) THEN 0
    ELSE 1 + TrailingBelow(SubSeq(s, 1, Len(s) - 1))

\* the maximal runs of below-threshold observations of s, as <<first, last>>
MaximalRuns(s) ==
    { r \in (1..Len(s)) \X (1..Len(s)) :
        /\ r[1] <= r[2]
        /\ \A i \in r[1]..r[2] : s[i]
        /\ r[1] = 1 \/ ~s[r[1] - 1]
        /\ r[2] = Len(s) \/ ~s[r[2] + 1] }

\* the number of maximal runs of length >= EAR_CONSEC_FRAMES that are
\* followed by an at-or-above-threshold observation
CountedRuns(s) ==
    Cardinality({ r \in MaximalRuns(s) :
                    r[2] - r[1] + 1 >= EAR_CONSEC_FRAMES /\ r[2] < Len(s) })

StatisticKeys ==
    {"duration_seconds", "total_blinks", "blink_rate_per_minute",
     "ear_statistics", "gaze_distribution", "data_points"}

----------------------------------------------------------------------------
(* C1: on a tracker that was never reset, total_blinks is the number of   *)
(* maximal runs of below-threshold observations that have at least        *)
(* EAR_CONSEC_FRAMES observations and are followed by an observation at   *)
(* or above the threshold; a run of one observation counts nothing.       *)
C1_BlinkCount == fresh => total_blinks = CountedRuns(obs)

\* two blinks were counted, after six observations
C1_Witness ==
    fresh /\ op = "detect_blink" /\ total_blinks = 2 /\ Len(obs) = 6

(* C2: detect_blink and process_frame, called directly or from the        *)
(* capture loop, leave total_blinks unchanged or larger by exactly 1, and *)
(* get_statistics leaves it unchanged.                                    *)
C2_Monotonic ==
    [][ /\ op' \in {"detect_blink", "process_frame", "run_live_tracking"}
              => total_blinks' \in {total_blinks, total_blinks + 1}
        /\ op' = "get_statistics" => total_blinks' = total_blinks ]_vars

\* a process_frame call has registered a blink
C2_Witness ==
    op = "process_frame" /\ face /\ total_blinks = 1 /\ frame_counter = 0
        /\ Len(obs) = 3

(* C3: detect_blink returns is_blinking = TRUE exactly when the run of    *)
(* below-threshold observations ending at the call has at least           *)
(* EAR_CONSEC_FRAMES observations: FALSE on the first below-threshold     *)
(* observation after an open one, FALSE on every open one.                *)
C3_IsBlinking ==
    op = "detect_blink" =>
        /\ ret.is_blinking <=> (TrailingBelow(obs) >= EAR_CONSEC_FRAMES)
        /\ ~Last(obs) => ~ret.is_blinking
        /\ (Len(obs) >= 2 /\ Last(obs) /\ ~obs[Len(obs) - 1]) => ~ret.is_blinking

\* the third observation of a closed period, after an open one
C3_Witness ==
    op = "detect_blink" /\ ret.is_blinking /\ TrailingBelow(obs) = 3
        /\ Len(obs) = 4

(* C4: total_blinks grows only in a step that makes an observation at or  *)
(* above the threshold, and after every such observation frame_counter is *)
(* 0, whether or not a blink was registered.                              *)
C4_ReopenOnly ==
    [][ /\ total_blinks' > total_blinks => obs' = Append(obs, FALSE)
        /\ (Len(obs') > Len(obs) /\ ~Last(obs')) => frame_counter' = 0 ]_vars

\* a closed period of one observation has ended without a blink
C4_Witness ==
    /\ op = "detect_blink" /\ Len(obs) = 3
    /\ obs[2] /\ ~obs[1] /\ ~obs[3]
    /\ total_blinks = 0 /\ frame_counter = 0

(* C5: processing a frame without a face returns no record and leaves     *)
(* frame_counter, total_blinks and both histories as they were.           *)
C5_NoFace ==
    [][ ( /\ \/ op' = "process_frame"
             \/ op' = "run_live_tracking" /\ ret'.event = "frame"
          /\ ~face' )
            => /\ ret'.blink_data = None
               /\ ret'.movement_data = None
               /\ UNCHANGED tracker ]_vars

\* a frame without a face was processed in the middle of a closed period
C5_Witness ==
    /\ op = "process_frame" /\ ~face
    /\ ret.blink_data = None /\ ret.movement_data = None
    /\ frame_counter = 1

(* C6: every process_frame call on a frame with a face appends one record *)
(* to blink_history and one to movement_history.                          *)
C6_ProcessFrameAppends ==
    [][ (op' = "process_frame" /\ face' /\ Len(obs') > Len(obs))
            => /\ Len(blink_history') = Len(blink_history) + 1
               /\ Len(movement_history') = Len(movement_history) + 1 ]_vars

(* C7: with an empty blink_history, get_statistics returns a result with  *)
(* the key "error" and none of the statistic keys, and raises nothing,    *)
(* whatever the counters are.                                             *)
C7_EmptyHistory ==
    (op = "get_statistics" /\ blink_history = <<>>) =>
        /\ "error" \in DOMAIN ret
        /\ DOMAIN ret \cap StatisticKeys = {}
        /\ "raised" \notin DOMAIN ret

\* statistics asked with no record, after a blink was registered
C7_Witness ==
    /\ op = "get_statistics" /\ blink_history = <<>>
    /\ total_blinks = 1 /\ "error" \in DOMAIN ret

(* C8: get_statistics changes nothing of the tracker, and a second call   *)
(* right after a first returns the same result.                           *)
C8_StatisticsPure ==
    [][ op' = "get_statistics" =>
            /\ UNCHANGED <<tracker, obs>>
            /\ op = "get_statistics" => ret' = ret ]_vars

\* statistics asked in the middle of a closed period, with records stored
C8_Witness ==
    op = "get_statistics" /\ blink_history # <<>> /\ frame_counter >= 1

(* C9: reset_tracking zeroes the counters and empties the histories, and  *)
(* the observations made after it give the counters and the is_blinking   *)
(* results that they give on a new tracker.                               *)
C9_Reset ==
    /\ op = "reset_tracking" =>
          /\ frame_counter = 0 /\ total_blinks = 0
          /\ blink_history = <<>> /\ movement_history = <<>>
    /\ ~fresh =>
          /\ frame_counter = TrailingBelow(obs)
          /\ total_blinks = CountedRuns(obs)
          /\ op = "detect_blink" =>
                (ret.is_blinking <=> TrailingBelow(obs) >= EAR_CONSEC_FRAMES)

\* a blink was counted from the observations made after a reset
C9_Witness ==
    /\ ~fresh /\ op = "detect_blink"
    /\ obs = <<TRUE, TRUE, FALSE>> /\ total_blinks = 1

(* C10: with a non-empty blink_history, get_statistics returns exactly    *)
(* the six statistic keys, ear_statistics has exactly left_eye, right_eye *)
(* and average, each with exactly mean, std, min and max, data_points is  *)
(* the length of blink_history and total_blinks the tracker's.            *)
C10_StatisticsShape ==
    (op = "get_statistics" /\ blink_history # <<>>) =>
        /\ DOMAIN ret = StatisticKeys
        /\ DOMAIN ret.ear_statistics = {"left_eye", "right_eye", "average"}
        /\ \A eye \in DOMAIN ret.ear_statistics :
              DOMAIN ret.ear_statistics[eye] = {"mean", "std", "min", "max"}
        /\ ret.data_points = Len(blink_history)
        /\ ret.total_blinks = total_blinks

\* statistics of two records, after a blink was registered
C10_Witness ==
    /\ op = "get_statistics" /\ Len(blink_history) = 2
    /\ total_blinks = 1 /\ ret.data_points = 2

(* C11: the duration is the last timestamp of blink_history minus the    *)
(* first, and blink_rate_per_minute is total_blinks / duration * 60 (to   *)
(* 2 decimals) when the duration is positive and 0 otherwise: 0 for one   *)
(* record, for equal timestamps, for a last timestamp before the first;   *)
(* it is never negative.                                                  *)
C11_BlinkRate ==
    (op = "get_statistics" /\ blink_history # <<>>) =>
        LET d    == Last(blink_history).timestamp - blink_history[1].timestamp
            rate == ret.blink_rate_per_minute
        IN  /\ ret.duration_seconds = 100 * d
            /\ d > 0 => 2 * Abs(rate * d - 100 * 60 * total_blinks) <= d
            /\ d <= 0 => rate = 0
            /\ Len(blink_history) = 1 => rate = 0
            /\ rate >= 0

\* a blink was counted and the last record is older than the first
C11_Witness ==
    /\ op = "get_statistics" /\ Len(blink_history) = 2
    /\ Last(blink_history).timestamp < blink_history[1].timestamp
    /\ total_blinks = 1 /\ ret.blink_rate_per_minute = 0

\* the sum of the values of a tally
RECURSIVE TotalOf(_)
TotalOf(counts) ==
    IF DOMAIN counts = {} THEN 0
    ELSE LET k == CHOOSE k \in DOMAIN counts : TRUE
         IN  counts[k] + TotalOf([j \in DOMAIN counts \ {k} |-> counts[j]])

\* the rearrangements of a sequence
Rearrangements(seq) ==
    {[i \in 1..Len(seq) |-> seq[p[i]]] : p \in Permutations(1..Len(seq))}

(* C12: gaze_distribution maps each direction that occurs in              *)
(* movement_history to its number of occurrences: no key has the value 0, *)
(* the values add up to len(movement_history), and the order of the       *)
(* records does not matter.                                               *)
C12_GazeDistribution ==
    (op = "get_statistics" /\ blink_history # <<>>) =>
        LET mh     == movement_history
            counts == ret.gaze_distribution
        IN  /\ DOMAIN counts = {mh[i].gaze_direction : i \in 1..Len(mh)}
            /\ \A direction \in DOMAIN counts :
                   /\ counts[direction] =
                        Cardinality({i \in 1..Len(mh) : mh[i].gaze_direction = direction})
                   /\ counts[direction] > 0
            /\ TotalOf(counts) = Len(mh)
            /\ \A other_order \in Rearrangements(mh) :
                   GazeCounts(other_order) = counts

\* two records with different directions were tallied
C12_Witness ==
    /\ op = "get_statistics" /\ Len(movement_history) = 2
    /\ movement_history[1].gaze_direction = "center"
    /\ movement_history[2].gaze_direction = "left"
    /\ ret.gaze_distribution["center"] = 1 /\ ret.gaze_distribution["left"] = 1

\* the values of op after an operation on the second tracker
OtherOps ==
    {"other.detect_blink", "other.run_live_tracking",
     "other.get_statistics", "other.reset_tracking"}

\* the label of the mirror image of a gaze direction
Mirror(direction) ==
    CASE direction = "left"  -> "right"
      [] direction = "right" -> "left"
      [] OTHER               -> direction

(* C13: estimate_gaze_direction returns the label of the first matching   *)
(* rule of: |dx| < 5 and |dy| < 3 -> center; dx < -5 -> left; dx > 5 ->    *)
(* right; dy < -3 -> up; dy > 3 -> down; otherwise center, where (dx, dy)  *)
(* is the averaged offset. (-10, 0) gives left, (0, 10) down, (2, 1)       *)
(* center, and the result is one of the five labels.                      *)
C13_GazeRules ==
    op = "estimate_gaze_direction" =>
        LET \* twice the averaged offset, in pixels
            dx2 == arg.offsets.left[1] + arg.offsets.right[1]
            dy2 == arg.offsets.left[2] + arg.offsets.right[2]
        IN  /\ ret = IF Abs(dx2) < 2 * 5 /\ Abs(dy2) < 2 * 3 THEN "center"
                     ELSE IF dx2 < -(2 * 5) THEN "left"
                     ELSE IF dx2 > 2 * 5 THEN "right"
                     ELSE IF dy2 < -(2 * 3) THEN "up"
                     ELSE IF dy2 > 2 * 3 THEN "down"
                     ELSE "center"
            /\ (dx2 = -20 /\ dy2 = 0) => ret = "left"
            /\ (dx2 = 0 /\ dy2 = 20) => ret = "down"
            /\ (dx2 = 4 /\ dy2 = 2) => ret = "center"
            /\ ret \in {"center", "left", "right", "up", "down"}

\* both eyes' offsets are (0, 10) and the result is down
C13_Witness ==
    /\ op = "estimate_gaze_direction"
    /\ arg.offsets = [left |-> <<0, 10>>, right |-> <<0, 10>>]
    /\ ret = "down"

(* C14: negating the horizontal component of both eyes' offsets turns a   *)
(* left result into right, a right result into left, and leaves center,   *)
(* up and down unchanged; offsets (0, 0) for both eyes give center.       *)
C14_GazeMirror ==
    op = "estimate_gaze_direction" =>
        LET l == arg.offsets.left
            r == arg.offsets.right
            mirrored == estimate_gaze_direction(Iris(100 - l[1], 50 + l[2]),
                                                Iris(200 - r[1], 50 + r[2]),
                                                arg.left_eye_corners,
                                                arg.right_eye_corners)
        IN  /\ mirrored = Mirror(ret)
            /\ (l = <<0, 0>> /\ r = <<0, 0>>) => ret = "center"

\* a left result whose mirror image is a right result
C14_Witness ==
    /\ op = "estimate_gaze_direction"
    /\ arg.offsets = [left |-> <<-10, 0>>, right |-> <<-10, 0>>]
    /\ ret = "left"

(* C15: calculate_ear raises ValueError for every contour that has not    *)
(* exactly 6 points, fewer or more, before any distance is computed: no   *)
(* value is returned.                                                     *)
C15_EarLength ==
    (op = "calculate_ear" /\ Len(arg) # 6) =>
        /\ ret = ValueError
        /\ "value" \notin DOMAIN ret

\* a contour of 7 points was rejected
C15_Witness ==
    /\ op = "calculate_ear" /\ Len(arg) = 7
    /\ ret = [raised |-> "ValueError"]

(* C16: on a 6-point contour whose points 0 and 3 coincide calculate_ear  *)
(* returns 0.0 without raising, whatever the vertical distances; on one   *)
(* with non-zero horizontal distance whose pairs (1,5) and (2,4) coincide *)
(* it returns 0.0.                                                        *)
C16_EarDegenerate ==
    (op = "calculate_ear" /\ Len(arg) = 6) =>
        /\ arg[1] = arg[4] => ret = [value |-> 0]
        /\ (arg[1] # arg[4] /\ arg[2] = arg[6] /\ arg[3] = arg[5]) =>
               ret = [value |-> 0]

\* points 0 and 3 coincide while the eye is open
C16_Witness ==
    /\ op = "calculate_ear" /\ Len(arg) = 6
    /\ arg[1] = arg[4] /\ arg[2] # arg[6] /\ arg[3] # arg[5]
    /\ ret = [value |-> 0]

\* a contour with all coordinates multiplied by scale
Scaled(contour, scale) ==
    [i \in 1..Len(contour) |-> <<scale * contour[i][1], scale * contour[i][2]>>]

(* C17: the EAR of a 6-point contour with all coordinates multiplied by a *)
(* positive factor equals the EAR of the contour, the degenerate contours *)
(* of EAR 0.0 included.                                                   *)
C17_EarScale ==
    (op = "calculate_ear" /\ Len(arg) = 6) =>
        \A scale \in 1..MaxScale : calculate_ear(Scaled(arg, scale)) = ret

\* an open eye, 3 wide and 4 high, of EAR 4/3
C17_Witness ==
    /\ op = "calculate_ear"
    /\ arg = << <<0, 0>>, <<0, 4>>, <<3, 4>>, <<3, 0>>, <<3, 0>>, <<0, 0>> >>
    /\ ret = [value |-> 266]

\* the values of blink_history that the statistics under a key are made of
EarsUnder(key) ==
    [i \in 1..Len(blink_history) |->
        CASE key = "left_eye"  -> blink_history[i].left_ear
          [] key = "right_eye" -> blink_history[i].right_ear
          [] key = "average"   -> blink_history[i].avg_ear]

(* C18: for a non-empty blink_history, the mean, population standard      *)
(* deviation, min and max reported for left_ear, right_ear and avg_ear    *)
(* are those of the values of all records, to 3 decimals; min <= mean <=  *)
(* max; and when all records carry the same value v, mean = v, std = 0,   *)
(* min = v and max = v.                                                   *)
C18_EarStatistics ==
    (op = "get_statistics" /\ blink_history # <<>>) =>
        \A key \in {"left_eye", "right_eye", "average"} :
            LET values == EarsUnder(key)
                n      == Len(values)
                sum    == SumSeq(values)
                \* n^2 times the variance
                d      == n * SumSeq([i \in 1..n |-> values[i] * values[i]]) - sum * sum
                st     == ret.ear_statistics[key]
            IN  /\ \E i \in 1..n : st.min = 5 * values[i]
                /\ \A i \in 1..n : st.min <= 5 * values[i]
                /\ \E i \in 1..n : st.max = 5 * values[i]
                /\ \A i \in 1..n : st.max >= 5 * values[i]
                /\ 2 * Abs(st.mean * n - 5 * sum) <= n
                /\ st.std >= 0
                /\ 100 * d <= (2 * st.std + 1) * (2 * st.std + 1) * n * n
                /\ st.std >= 1 =>
                       (2 * st.std - 1) * (2 * st.std - 1) * n * n <= 100 * d
                /\ st.min <= st.mean /\ st.mean <= st.max
                /\ (\A i \in 1..n : values[i] = values[1]) =>
                       /\ st.mean = 5 * values[1] /\ st.std = 0
                       /\ st.min = 5 * values[1] /\ st.max = 5 * values[1]

\* left_ear values 0.1, 0.1, 0.3: mean 0.167, std 0.094
C18_Witness ==
    /\ op = "get_statistics" /\ Len(blink_history) = 3
    /\ EarsUnder("left_eye") = <<20, 20, 60>>
    /\ ret.ear_statistics.left_eye = [mean |-> 167, std |-> 94, min |-> 100, max |-> 300]
    /\ ret.ear_statistics.average.std = 0

(* C19: two EyeTracker instances are independent: under every            *)
(* interleaving, detect_blink, frame processing, get_statistics and       *)
(* reset_tracking on one instance leave frame_counter, total_blinks,      *)
(* blink_history and movement_history of the other instance unchanged.    *)
C19_Independent ==
    [][ IF op' \in OtherOps THEN UNCHANGED tracker ELSE other' = other ]_vars

\* the second tracker was reset while the first one holds a record and a
\* closed-eye observation
C19_Witness ==
    /\ op = "other.reset_tracking" /\ other = InitOther
    /\ Len(blink_history) = 1 /\ Len(movement_history) = 1
    /\ frame_counter = 1

(* C20: when the observations end with a run of at least                 *)
(* EAR_CONSEC_FRAMES below-threshold observations, that closed period is  *)
(* not counted: total_blinks, and the total_blinks that get_statistics    *)
(* reports, is exactly one less than it would be had one observation at   *)
(* or above the threshold been appended.                                  *)
C20_PendingBlink ==
    TrailingBelow(obs) >= EAR_CONSEC_FRAMES =>
        LET reopened == detect_blink(frame_counter, total_blinks,
                                     EAR_THRESHOLD, EAR_THRESHOLD)
        IN  /\ reopened.total_blinks = total_blinks + 1
            /\ CountedRuns(Append(obs, FALSE)) = total_blinks + 1
            /\ CountedRuns(obs) = total_blinks
            /\ (op = "get_statistics" /\ blink_history # <<>>) =>
                   ret.total_blinks + 1 = reopened.total_blinks

\* the statistics of a run that ended with the eyes closed for two frames
C20_Witness ==
    /\ op = "get_statistics" /\ Len(blink_history) = 2
    /\ TrailingBelow(obs) = 2
    /\ Last(blink_history).is_blinking
    /\ ret.total_blinks = 0

(* C21: when reading a frame fails during a tracking run, the loop skips  *)
(* that frame and goes on: the run is still inside its loop, with the     *)
(* camera open, and later frames are processed and recorded.              *)
C21_ReadFailureSkipped ==
    [][ (pc = "running" /\ op' = "run_live_tracking"
            /\ ret' = [event |-> "read_failed"]) =>
        (pc' = "running" /\ cap' = "open") ]_vars

\* the loop's check finds the configured duration elapsed and ends the run
\* at once, without touching the tracker
C22_StopsWhenElapsed ==
    [][ (pc = "check" /\ pc' # "check" /\ duration # 0
            /\ now - start_time >= duration) =>
        (/\ pc' = "idle" /\ cap' = "closed"
         /\ ret' = [event |-> "duration_elapsed"]
         /\ UNCHANGED tracker) ]_vars

\* records are stored by the first half of an iteration only
C22_FramesInsideLoop ==
    [][ (blink_history' # blink_history \/ movement_history' # movement_history)
            => (pc = "running" /\ pc' = "check") ]_vars

\* without a duration the loop is never left for the time that has passed:
\* its breaks are the failed read and the quit key (an exception of
\* process_frame is not an end of the run but a failure of it)
C22_NoLimit ==
    [][ (pc # "idle" /\ pc' = "idle" /\ duration = 0
            /\ ret' # [event |-> "exception"]) =>
        ret' \in {[event |-> "read_failed"], [event |-> "quit"]} ]_vars

\* a run with a positive duration that the clock can reach comes to an end
C22_Terminates ==
    (pc # "idle" /\ duration > 0 /\ start_time + duration <= MaxTime)
        ~> (pc = "idle")

C23_GazePrecedence ==
    op = "estimate_gaze_direction" =>
        LET \* twice the averaged offset, in pixels
            dx2 == arg.offsets.left[1] + arg.offsets.right[1]
            dy2 == arg.offsets.left[2] + arg.offsets.right[2]
        IN  /\ Abs(dx2) > 2 * 5 => ret \in {"left", "right"}
            /\ ret \in {"up", "down"} => (Abs(dx2) <= 2 * 5 /\ Abs(dy2) > 2 * 3)
            /\ (Abs(dx2) = 2 * 5 /\ Abs(dy2) <= 2 * 3) => ret = "center"
            /\ (Abs(dx2) < 2 * 5 /\ Abs(dy2) = 2 * 3) => ret = "center"

\* an offset on the vertical threshold, inside the horizontal one
C23_Witness ==
    /\ op = "estimate_gaze_direction"
    /\ arg.offsets = [left |-> <<2, 3>>, right |-> <<2, 3>>]
    /\ ret = "center"

(* C24: an observation is below the threshold exactly when the average   *)
(* (left_ear + right_ear) / 2 is strictly less than EAR_THRESHOLD: an     *)
(* average equal to the threshold counts as open (it resets frame_counter *)
(* and can register a blink), a pair with one EAR below and one above is  *)
(* classified by its average alone, and the avg_ear returned is that      *)
(* average.                                                               *)
C24_StrictThreshold ==
    /\ \A left_ear \in MixedEars, right_ear \in MixedEars :
          LET d     == detect_blink(frame_counter, total_blinks, left_ear, right_ear)
              below == left_ear + right_ear < 2 * EAR_THRESHOLD
          IN  /\ 2 * d.avg_ear = left_ear + right_ear
              /\ below => /\ d.frame_counter = frame_counter + 1
                          /\ d.total_blinks = total_blinks
              /\ ~below => /\ d.frame_counter = 0
                           /\ ~d.is_blinking
                           /\ d.total_blinks =
                                IF frame_counter >= EAR_CONSEC_FRAMES
                                THEN total_blinks + 1 ELSE total_blinks
    /\ op = "detect_blink" =>
          /\ Last(obs) = (ret.avg_ear < EAR_THRESHOLD)
          /\ ret.avg_ear >= EAR_THRESHOLD => frame_counter = 0

\* an average equal to the threshold has ended a closed period and
\* registered the blink
C24_Witness ==
    /\ op = "detect_blink" /\ ret.avg_ear = EAR_THRESHOLD
    /\ obs = <<TRUE, TRUE, FALSE>>
    /\ frame_counter = 0 /\ total_blinks = 1

(* C25: in every state reached through run_live_tracking, get_statistics *)
(* and reset_tracking, blink_history and movement_history have the same   *)
(* length and their i-th entries carry the same timestamp; hence the      *)
(* counts of gaze_distribution sum to data_points.                        *)
C25_HistoriesAligned ==
    /\ Len(blink_history) = Len(movement_history)
    /\ \A i \in 1..Len(blink_history) :
          blink_history[i].timestamp = movement_history[i].timestamp
    /\ (op = "get_statistics" /\ blink_history # <<>>) =>
          TotalOf(ret.gaze_distribution) = ret.data_points

\* the statistics of two records taken at different times
C25_Witness ==
    /\ op = "get_statistics" /\ Len(movement_history) = 2
    /\ movement_history[1].timestamp # movement_history[2].timestamp
    /\ ret.data_points = 2

\* every observation made since the last reset was stored as a record: no
\* frame was lost between detect_blink and the appends of the loop
AllRecorded == Len(obs) = Len(blink_history)

BlinkEvents(bh) == Cardinality({i \in 1..Len(bh) : bh[i].is_blinking})

(* C27: in every record produced by processing a frame, is_blinking       *)
(* implies avg_ear < EAR_THRESHOLD, and the record of the frame on which  *)
(* total_blinks was incremented has is_blinking = false; the number of    *)
(* records with is_blinking = true is therefore not the number of blinks. *)
C27_IsBlinkingRecords ==
    [][ /\ \A i \in 1..Len(blink_history') :
              blink_history'[i].is_blinking =>
                  blink_history'[i].avg_ear < EAR_THRESHOLD
        /\ (total_blinks' > total_blinks /\ blink_history' # blink_history) =>
              /\ blink_history' = Append(blink_history, Last(blink_history'))
              /\ ~Last(blink_history').is_blinking
              /\ Last(blink_history').avg_ear >= EAR_THRESHOLD
              /\ Last(blink_history').blink_count = total_blinks'
      ]_vars

\* three closed frames and a reopening: two records with is_blinking = true
\* and one blink
C27_Witness ==
    /\ Len(blink_history) = 4
    /\ BlinkEvents(blink_history) = 2 /\ total_blinks = 1
    /\ ~Last(blink_history).is_blinking
    /\ Last(blink_history).blink_count = 1

\* the frames of a feed that were processed: "below" and "above" for the
\* frames with a face, "none" for the others
Fed ==
    [i \in 1..arg.done |->
        IF ~arg.frames[i].face THEN "none"
        ELSE IF FrameBelowThreshold(arg.frames[i]) THEN "below" ELSE "above"]

\* a sequence without its "none" entries, as observations
RECURSIVE FaceOnly(_)
FaceOnly(kinds) ==
    IF kinds = <<>> THEN <<>>
    ELSE IF Head(kinds) = "none" THEN FaceOnly(Tail(kinds))
    ELSE <<Head(kinds) = "below">> \o FaceOnly(Tail(kinds))

(* C28: frames without a face do not interrupt a below-threshold run:     *)
(* below-threshold frames separated by no-face frames only count as       *)
(* consecutive, so one below-threshold frame, any number of no-face       *)
(* frames, another below-threshold frame and an at-or-above-threshold     *)
(* frame register exactly one blink.                                      *)
C28_NoFaceKeepsRun ==
    /\ frame_counter = TrailingBelow(FaceOnly(Fed))
    /\ total_blinks = CountedRuns(FaceOnly(Fed))
    /\ (/\ arg.done >= 4
        /\ Fed[1] = "below"
        /\ \A i \in 2..(arg.done - 2) : Fed[i] = "none"
        /\ Fed[arg.done - 1] = "below"
        /\ Fed[arg.done] = "above") => total_blinks = 1

\* a closed frame, a frame without a face, a closed frame and an open one
C28_Witness ==
    /\ op = "process_frame"
    /\ Fed = <<"below", "none", "below", "above">>
    /\ total_blinks = 1 /\ frame_counter = 0

(* C29: after n detect_blink calls on a fresh tracker,                   *)
(* 0 <= frame_counter <= n and                                            *)
(* total_blinks * (EAR_CONSEC_FRAMES + 1) + frame_counter <= n: a blink   *)
(* uses up EAR_CONSEC_FRAMES observations below the threshold and one at  *)
(* or above it, which it shares with no other blink.                      *)
C29_CounterBudget ==
    fresh =>
        LET n == Len(obs)
        IN  /\ 0 <= frame_counter /\ frame_counter <= n
            /\ 0 <= total_blinks
            /\ total_blinks * (EAR_CONSEC_FRAMES + 1) + frame_counter <= n

\* six calls that registered two blinks: the bound is reached
C29_Witness ==
    /\ fresh /\ op = "detect_blink"
    /\ obs = <<TRUE, TRUE, FALSE, TRUE, TRUE, FALSE>>
    /\ total_blinks = 2 /\ frame_counter = 0


\* the ways run_live_tracking leaves its loop
LoopExits == {"read_failed", "duration_elapsed", "quit", "exception"}

(* C30: after a successful start_camera, run_live_tracking calls          *)
(* stop_camera exactly once on every exit from its loop (failed read,      *)
(* duration elapsed, quit key, exception while processing a frame) and     *)
(* not before; when start_camera fails, the call returns without a frame   *)
(* processed, without stop_camera called, and with counters and histories  *)
(* unchanged.                                                              *)
C30_StopCameraOnce ==
    [][ /\ (pc # "idle" /\ pc' = "idle") =>
              /\ ret'.event \in LoopExits
              /\ stops = 0 /\ stops' = 1
              /\ cap = "open" /\ cap' = "closed"
        /\ pc' # "idle" => (stops' = 0 /\ cap' = "open")
        \* a call that returns without entering the loop (a step of the
        \* clock leaves the call alone)
        /\ (pc = "idle" /\ pc' = "idle" /\ op' = "run_live_tracking"
                /\ now' = now) =>
              /\ ret' = [event |-> "camera_failed"]
              /\ stops' = 0 /\ cap' = "closed"
              /\ UNCHANGED <<tracker, obs>>
        /\ (op' # "run_live_tracking" \/ now' # now) => UNCHANGED <<stops, cap>>
      ]_vars

\* a run that stored a record, then lost a frame to an exception and
\* released the camera once
C30_Witness ==
    /\ op = "run_live_tracking" /\ ret = [event |-> "exception"]
    /\ pc = "idle" /\ cap = "closed" /\ stops = 1
    /\ Len(blink_history) = 1 /\ Len(obs) = 2

====
